---- MODULE Spec2Model ----
(***************************************************************************)
(* Publication pipeline of the lab website: the fetch-and-propose cycle    *)
(* (scripts/fetch-publications.js) and the decision-apply cycle (the       *)
(* approval handler called by approve-publication.yml), sharing the        *)
(* persisted dataset data/publications.json.                               *)
(*                                                                         *)
(* Text is a sequence of tokens.  A token is one character ("a", " ",      *)
(* "\n") or one literal of the templates and regular expressions of the    *)
(* code ("**Title:**", "/approve", "doi:"), which the texts drawn here     *)
(* never spell out character by character.  Spelling gives a literal's     *)
(* characters where the code goes on to read them.                         *)
(***************************************************************************)
EXTENDS Integers, Sequences, FiniteSets, TLC

VARIABLES
    disk,      \* content of data/publications.json: a sequence of blocks
    issues,    \* review requests in the tracker: [pub, body]
    decided,   \* history: [pub, action] of every decision applied
    writer,    \* the writeFileSync in progress: what is left to write
    promises,  \* the Promise.all in progress: the two provider fetches
    last       \* the most recent cycle, or step: its inputs and results

vars == <<disk, issues, decided, writer, promises, last>>

----------------------------------------------------------------------------
(* Values *)

\* null / undefined / NaN of a text field: a token no text contains
Null == <<"<null>">>

\* null / NaN of year; every use in the code tests it for truthiness, as 0
NoYear == 0

Truthy(v) == v # Null /\ v # <<>>

LowerCase == <<"a","b","c","d","e","f","g","h","i","j","k","l","m",
               "n","o","p","q","r","s","t","u","v","w","x","y","z">>
UpperCase == <<"A","B","C","D","E","F","G","H","I","J","K","L","M",
               "N","O","P","Q","R","S","T","U","V","W","X","Y","Z">>
Digits == <<"0","1","2","3","4","5","6","7","8","9">>

Range(s) == {s[i] : i \in DOMAIN s}

Spaces == {" ", "\n", "\t"}
DigitSet == Range(Digits)
\* [a-z0-9]
LowerAlnum == Range(LowerCase) \cup Range(Digits)

IsSpace(c) == c \in Spaces
IsNewline(c) == c = "\n"

LowerOf == [c \in Range(UpperCase) |->
               LowerCase[CHOOSE i \in DOMAIN UpperCase : UpperCase[i] = c]]

toLowerCase(c) == IF c \in DOMAIN LowerOf THEN LowerOf[c] ELSE c

\* the characters of the literals that parsed fields can come to hold
Spelling(tok) ==
    CASE tok = "**Title:**"   -> <<"*","*","T","i","t","l","e",":","*","*">>
      [] tok = "**Authors:**" -> <<"*","*","A","u","t","h","o","r","s",":","*","*">>
      [] tok = "**Journal:**" -> <<"*","*","J","o","u","r","n","a","l",":","*","*">>
      [] tok = "**Year:**"    -> <<"*","*","Y","e","a","r",":","*","*">>
      [] tok = "**DOI:**"     -> <<"*","*","D","O","I",":","*","*">>
      [] tok = "**PMID:**"    -> <<"*","*","P","M","I","D",":","*","*">>
      [] tok = "**Source:**"  -> <<"*","*","S","o","u","r","c","e",":","*","*">>
      [] tok = "orcid"        -> <<"o","r","c","i","d">>
      [] tok = "pubmed"       -> <<"p","u","b","m","e","d">>
      [] OTHER                -> <<tok>>

RECURSIVE Chars(_)
Chars(s) == IF s = <<>> THEN <<>> ELSE Spelling(Head(s)) \o Chars(Tail(s))

\* .toLowerCase() of a text of characters
RECURSIVE LowerText(_)
LowerText(s) ==
    IF s = <<>> THEN <<>> ELSE <<toLowerCase(Head(s))>> \o LowerText(Tail(s))

\* .replace(/[^a-z0-9]/g, '')
RECURSIVE StripNonAlnum(_)
StripNonAlnum(s) ==
    IF s = <<>> THEN <<>>
    ELSE (IF Head(s) \in LowerAlnum THEN <<Head(s)>> ELSE <<>>) \o StripNonAlnum(Tail(s))

\* String.prototype.trim
RECURSIVE TrimLeft(_)
TrimLeft(s) == IF s # <<>> /\ IsSpace(Head(s)) THEN TrimLeft(Tail(s)) ELSE s

RECURSIVE TrimRight(_)
TrimRight(s) ==
    IF s # <<>> /\ IsSpace(s[Len(s)]) THEN TrimRight(SubSeq(s, 1, Len(s) - 1)) ELSE s

Trim(s) == TrimRight(TrimLeft(s))

\* Number -> decimal text (template literal), n > 0
RECURSIVE NumberToString(_)
NumberToString(n) ==
    IF n < 10 THEN <<Digits[n + 1]>>
    ELSE NumberToString(n \div 10) \o <<Digits[(n % 10) + 1]>>

DigitValue(c) == (CHOOSE i \in DOMAIN Digits : Digits[i] = c) - 1

\* parseInt of a run of decimal digits
RECURSIVE parseInt(_)
parseInt(s) ==
    IF Len(s) = 1 THEN DigitValue(s[1])
    ELSE 10 * parseInt(SubSeq(s, 1, Len(s) - 1)) + DigitValue(s[Len(s)])

\* null rendered as nothing
ToTextBlank(v) == IF v = Null THEN <<>> ELSE v

\* ${v} of a text field, in a template literal
ToText(v) == IF v = Null THEN <<"n","u","l","l">> ELSE v

----------------------------------------------------------------------------
(* Identity matcher: fetch-publications.js *)

normalizeTitle(title) == Trim(StripNonAlnum(LowerText(Chars(title))))

\* one turn of the loop of publicationExists
matchesExisting(pub, existing) ==
    \/ Truthy(pub.doi) /\ Truthy(existing.doi) /\ pub.doi = existing.doi
    \/ Truthy(pub.pmid) /\ Truthy(existing.pmid) /\ pub.pmid = existing.pmid
    \/ normalizeTitle(pub.title) = normalizeTitle(existing.title)

RECURSIVE anyMatch(_, _)
anyMatch(pub, allExisting) ==
    IF allExisting = <<>> THEN FALSE
    ELSE IF matchesExisting(pub, Head(allExisting)) THEN TRUE
    ELSE anyMatch(pub, Tail(allExisting))

publicationExistsApprovedOnly(pub, existingData) ==
    anyMatch(pub, existingData.approved)

publicationExists(pub, existingData) ==
    anyMatch(pub, existingData.approved \o existingData.pending \o existingData.rejected)

----------------------------------------------------------------------------
(* Regular expressions, as String.prototype.match runs them: the leftmost  *)
(* position where the pattern matches, greedy quantifiers, backtracking.   *)
(* A failed match is <<>>: every capture group here holds at least one     *)
(* token.                                                                  *)

Min(S) == CHOOSE x \in S : \A y \in S : x <= y
Max(S) == CHOOSE x \in S : \A y \in S : x >= y

\* first index from i on whose token is not in set (Len(s) + 1 if none)
RECURSIVE SkipIn(_, _, _)
SkipIn(s, i, set) ==
    IF i > Len(s) \/ s[i] \notin set THEN i ELSE SkipIn(s, i + 1, set)

\* first index from i on whose token is in set (Len(s) + 1 if none)
RECURSIVE SkipNotIn(_, _, _)
SkipNotIn(s, i, set) ==
    IF i > Len(s) \/ s[i] \in set THEN i ELSE SkipNotIn(s, i + 1, set)

\* label\s*(.+) tried with the label at i: \s* gives back white space until
\* "." (any token but a line break) has one to take
LineAt(s, i) ==
    LET starts == {j \in (i + 1)..SkipIn(s, i + 1, Spaces) :
                       j <= Len(s) /\ ~IsNewline(s[j])}
    IN  IF starts = {} THEN <<>>
        ELSE SubSeq(s, Max(starts), SkipNotIn(s, Max(starts), {"\n"}) - 1)

\* label\s*(\S+) tried with the label at i
WordAt(s, i) ==
    LET j == SkipIn(s, i + 1, Spaces)
    IN  SubSeq(s, j, SkipNotIn(s, j, Spaces) - 1)

\* label\s*(\d+) tried with the label at i
NumberAt(s, i) ==
    LET j == SkipIn(s, i + 1, Spaces)
    IN  SubSeq(s, j, SkipIn(s, j, DigitSet) - 1)

matchLine(s, label) ==
    LET hits == {i \in DOMAIN s : s[i] = label /\ LineAt(s, i) # <<>>}
    IN  IF hits = {} THEN <<>> ELSE LineAt(s, Min(hits))

matchWord(s, label) ==
    LET hits == {i \in DOMAIN s : s[i] = label /\ WordAt(s, i) # <<>>}
    IN  IF hits = {} THEN <<>> ELSE WordAt(s, Min(hits))

matchNumber(s, label) ==
    LET hits == {i \in DOMAIN s : s[i] = label /\ NumberAt(s, i) # <<>>}
    IN  IF hits = {} THEN <<>> ELSE NumberAt(s, Min(hits))

\* the i flag: the spellings of a command word, of an identifier prefix
Verbs(action) == IF action = "approve" THEN {"/approve", "/APPROVE"}
                 ELSE {"/reject", "/REJECT"}
IdPrefixes == {"doi:", "pmid:", "DOI:", "PMID:"}

\* match[1].replace(':', '')
dropColon(prefix) ==
    CASE prefix = "doi:"  -> "doi"
      [] prefix = "pmid:" -> "pmid"
      [] prefix = "DOI:"  -> "DOI"
      [] prefix = "PMID:" -> "PMID"

\* /\/<verb>\s+(doi:|pmid:)(\S+)/i tried with the verb at i: <<>> or
\* <<group 1, group 2>>
CommandAt(s, i, action) ==
    LET j == SkipIn(s, i + 1, Spaces)
        k == SkipNotIn(s, j + 1, Spaces)
    IN  IF /\ s[i] \in Verbs(action)
           /\ j > i + 1
           /\ j <= Len(s)
           /\ s[j] \in IdPrefixes
           /\ k > j + 1
        THEN <<s[j], SubSeq(s, j + 1, k - 1)>>
        ELSE <<>>

matchCommand(s, action) ==
    LET hits == {i \in DOMAIN s : CommandAt(s, i, action) # <<>>}
    IN  IF hits = {} THEN <<>> ELSE CommandAt(s, Min(hits), action)

----------------------------------------------------------------------------
(* Review request gateway *)

NoCommand == [action |-> "none"]

parseCommandFirst(comment) ==
    LET hitsA == {i \in DOMAIN comment : CommandAt(comment, i, "approve") # <<>>}
        hitsR == {i \in DOMAIN comment : CommandAt(comment, i, "reject") # <<>>}
        first == Min(hitsA \cup hitsR)
        action == IF first \in hitsA THEN "approve" ELSE "reject"
        m == CommandAt(comment, first, action)
    IN  IF hitsA \cup hitsR = {} THEN NoCommand
        ELSE [action |-> action, idType |-> dropColon(m[1]), idValue |-> m[2]]

parseCommand(comment) ==
    LET approveMatch == matchCommand(comment, "approve")
        rejectMatch == matchCommand(comment, "reject")
    IN  IF approveMatch # <<>>
        THEN [action |-> "approve", idType |-> dropColon(approveMatch[1]),
              idValue |-> approveMatch[2]]
        ELSE IF rejectMatch # <<>>
        THEN [action |-> "reject", idType |-> dropColon(rejectMatch[1]),
              idValue |-> rejectMatch[2]]
        ELSE NoCommand

NotAvailable == <<"N", "/", "A">>

generateIssueBody(pub) ==
    LET doiLine == IF Truthy(pub.doi) THEN <<"**DOI:**", " ">> \o pub.doi ELSE <<>>
        pmidLine == IF Truthy(pub.pmid) THEN <<"**PMID:**", " ">> \o pub.pmid ELSE <<>>
        idRef == IF Truthy(pub.doi) THEN <<"doi:">> \o pub.doi
                 ELSE <<"pmid:">> \o ToText(pub.pmid)
    IN  Trim(
          <<"\n", "## New Publication Detected", "\n", "\n">>
          \o <<"**Title:**", " ">> \o pub.title \o <<"\n", "\n">>
          \o <<"**Authors:**", " ">>
          \o (IF Truthy(pub.authors) THEN pub.authors ELSE NotAvailable) \o <<"\n", "\n">>
          \o <<"**Journal:**", " ">>
          \o (IF Truthy(pub.journal) THEN pub.journal ELSE NotAvailable) \o <<"\n", "\n">>
          \o <<"**Year:**", " ">>
          \o (IF pub.year # NoYear THEN NumberToString(pub.year) ELSE NotAvailable)
          \o <<"\n", "\n">>
          \o doiLine \o <<"\n">> \o pmidLine \o <<"\n", "\n">>
          \o <<"**Source:**", " ", pub.source, "\n", "\n", "---", "\n", "\n">>
          \o <<"### Actions", "\n", "\n">>
          \o <<"To approve this publication and add it to the website, comment:", "\n">>
          \o <<"<code fence>", "\n", "/approve", " ">> \o idRef \o <<"\n", "<code fence>", "\n", "\n">>
          \o <<"To reject this publication (won't be asked again), comment:", "\n">>
          \o <<"<code fence>", "\n", "/reject", " ">> \o idRef \o <<"\n", "<code fence>", "\n">>)

parseIssueBody(body) ==
    LET titleMatch == matchLine(body, "**Title:**")
        authorsMatch == matchLine(body, "**Authors:**")
        journalMatch == matchLine(body, "**Journal:**")
        yearMatch == matchNumber(body, "**Year:**")
        doiMatch == matchWord(body, "**DOI:**")
        pmidMatch == matchWord(body, "**PMID:**")
    IN  [title   |-> IF titleMatch # <<>> THEN Trim(titleMatch) ELSE <<>>,
         authors |-> IF authorsMatch # <<>> THEN Trim(authorsMatch) ELSE <<>>,
         journal |-> IF journalMatch # <<>> THEN Trim(journalMatch) ELSE <<>>,
         year    |-> IF yearMatch # <<>> THEN parseInt(yearMatch) ELSE NoYear,
         doi     |-> IF doiMatch # <<>> THEN Trim(doiMatch) ELSE Null,
         pmid    |-> IF pmidMatch # <<>> THEN Trim(pmidMatch) ELSE Null]

----------------------------------------------------------------------------
(* Dataset store: the approval handler *)

\* pub-${year}-${randomSuffix}; thisYear is new Date().getFullYear() and
\* randomSuffix is Math.random().toString(36).substring(2, 5)
generateId(pub, thisYear, randomSuffix) ==
    <<"pub-">> \o NumberToString(IF pub.year # NoYear THEN pub.year ELSE thisYear)
    \o <<"-">> \o randomSuffix

\* links: {} and links.paper, as a set of <<key, url>>
paperLink(pubDetails) ==
    IF Truthy(pubDetails.doi)
    THEN {<<"paper", <<"https://doi.org/">> \o pubDetails.doi>>}
    ELSE {}

\* the publication entry built by main
newEntry(pubDetails, thisYear, randomSuffix) ==
    [id      |-> generateId(pubDetails, thisYear, randomSuffix),
     title   |-> pubDetails.title,
     authors |-> pubDetails.authors,
     journal |-> pubDetails.journal,
     year    |-> pubDetails.year,
     doi     |-> pubDetails.doi,
     pmid    |-> pubDetails.pmid,
     links   |-> paperLink(pubDetails)]

\* JSON.stringify(data, null, 2): one block per key of the dataset object
JSONstringify(data) ==
    <<[key |-> "approved", value |-> data.approved],
      [key |-> "pending", value |-> data.pending],
      [key |-> "rejected", value |-> data.rejected],
      [key |-> "lastUpdated", value |-> data.lastUpdated]>>

\* whether JSON.parse(text) returns: text holds the whole object
Parses(text) == Len(text) = 4

JSONparse(text) ==
    [approved |-> text[1].value, pending |-> text[2].value,
     rejected |-> text[3].value, lastUpdated |-> text[4].value]

\* new Date().toISOString() at a save: later than the last save's
Now(data) == data.lastUpdated + 1

\* new Date().getFullYear()
ThisYear == 2026

pushToPending(data, command, publication) ==
    IF command.action = "approve"
    THEN [data EXCEPT !.pending = Append(@, publication)]
    ELSE [data EXCEPT !.rejected = Append(@, publication)]

\* unshift for push
unshiftPublication(data, command, publication) ==
    IF command.action = "approve"
    THEN [data EXCEPT !.approved = <<publication>> \o @]
    ELSE [data EXCEPT !.rejected = <<publication>> \o @]

\* data.approved.push(publication) / data.rejected.push(publication)
pushPublication(data, command, publication) ==
    IF command.action = "approve"
    THEN [data EXCEPT !.approved = Append(@, publication)]
    ELSE IF command.action = "reject"
    THEN [data EXCEPT !.rejected = Append(@, publication)]
    ELSE data

\* what savePublications(data) writes
savedData(data) == [data EXCEPT !.lastUpdated = Now(data)]

----------------------------------------------------------------------------
(* Source aggregator and reconciliation engine: fetch-publications.js main *)

\* pub.doi || pub.pmid || normalizeTitle(pub.title)
dedupKeyPmidFirst(pub) ==
    IF Truthy(pub.pmid) THEN pub.pmid
    ELSE IF Truthy(pub.doi) THEN pub.doi
    ELSE normalizeTitle(pub.title)

dedupKey(pub) ==
    IF Truthy(pub.doi) THEN pub.doi
    ELSE IF Truthy(pub.pmid) THEN pub.pmid
    ELSE normalizeTitle(pub.title)

\* the loop over allFetched from index i on: the indices pushed to uniquePubs
RECURSIVE keptFrom(_, _, _)
keptFrom(allFetched, i, seen) ==
    IF i > Len(allFetched) THEN <<>>
    ELSE IF dedupKey(allFetched[i]) \in seen
         THEN keptFrom(allFetched, i + 1, seen)
         ELSE <<i>> \o keptFrom(allFetched, i + 1, seen \cup {dedupKey(allFetched[i])})

keptIndices(allFetched) == keptFrom(allFetched, 1, {})

pick(s, indices) == [k \in DOMAIN indices |-> s[indices[k]]]

\* uniquePubs.filter(pub => !publicationExists(pub, existingData))
RECURSIVE findNew(_, _)
findNew(uniquePubs, existingData) ==
    IF uniquePubs = <<>> THEN <<>>
    ELSE (IF publicationExists(Head(uniquePubs), existingData) THEN <<>>
          ELSE <<Head(uniquePubs)>>)
         \o findNew(Tail(uniquePubs), existingData)

EmptyDataset == [approved |-> <<>>, pending |-> <<>>, rejected |-> <<>>, lastUpdated |-> 0]

Idle == [pc |-> "idle"]

\* One fetch-and-propose cycle.  orcidPubs and pubmedPubs are what the two
\* fetches return (<<>> on a failure); configured is whether GITHUB_TOKEN
\* and GITHUB_REPOSITORY are set; created are the indices of
\* newPublications whose createGitHubIssue returned an issue.
FetchCycle(orcidPubs, pubmedPubs, configured) ==
    /\ Parses(disk)
    /\ LET existingData == JSONparse(disk)
           allFetched == orcidPubs \o pubmedPubs
           kept == keptIndices(allFetched)
           uniquePubs == pick(allFetched, kept)
           newPublications == findNew(uniquePubs, existingData)
       IN  \E created \in (IF configured THEN SUBSET DOMAIN newPublications ELSE {{}}) :
               /\ issues' = issues \cup
                      {[pub |-> newPublications[i],
                        body |-> generateIssueBody(newPublications[i])] : i \in created}
               /\ last' = [op |-> "fetch", existingData |-> existingData,
                           allFetched |-> allFetched, kept |-> kept,
                           uniquePubs |-> uniquePubs,
                           newPublications |-> newPublications, created |-> created]
    /\ UNCHANGED <<disk, decided, writer, promises>>

\* the entry's identifier taken from the command
applyDecisionById(data, command, pubDetails, randomSuffix) ==
    savedData(pushPublication(data, command,
        newEntry(IF command.idType \in {"doi", "DOI"}
                 THEN [pubDetails EXCEPT !.doi = command.idValue]
                 ELSE [pubDetails EXCEPT !.pmid = command.idValue],
                 ThisYear, randomSuffix)))

\* the dataset a decision-apply cycle saves
applyDecision(data, command, pubDetails, randomSuffix) ==
    savedData(pushPublication(data, command,
                              newEntry(pubDetails, ThisYear, randomSuffix)))

noCommandOnlyEmpty(comment, command) == comment = <<>>

\* main's two exits before loadPublications: no comment, no command in it
noCommand(comment, command) == comment = <<>> \/ command = NoCommand

\* One decision-apply cycle, its save taken as one step: ISSUE_COMMENT is
\* comment, ISSUE_BODY the body of issue.
DecisionApply(comment, issue, randomSuffix) ==
    /\ writer = Idle
    /\ Parses(disk)
    /\ LET command == parseCommand(comment)
           pubDetails == parseIssueBody(issue.body)
           data == JSONparse(disk)
       IN  IF noCommand(comment, command)
           THEN /\ UNCHANGED <<disk, decided>>
                /\ last' = [op |-> "decide", comment |-> comment, command |-> command,
                            issue |-> issue, before |-> data,
                            exit |-> IF comment = <<>> THEN 1 ELSE 0]
           ELSE /\ disk' = JSONstringify(applyDecision(data, command, pubDetails,
                                                       randomSuffix))
                /\ decided' = decided \cup {[pub |-> issue.pub, action |-> command.action]}
                /\ last' = [op |-> "decide", comment |-> comment, command |-> command,
                            issue |-> issue, pubDetails |-> pubDetails, before |-> data,
                            exit |-> 0]
    /\ UNCHANGED <<issues, writer, promises>>

\* The file one run of the handler leaves, from the file it finds: text is
\* the file, comment ISSUE_COMMENT, body ISSUE_BODY.
handlerRun(text, comment, body, randomSuffix) ==
    LET command == parseCommand(comment)
    IN  IF noCommand(comment, command) THEN text
        ELSE JSONstringify(applyDecision(JSONparse(text), command,
                                         parseIssueBody(body), randomSuffix))

\* Two runs of the handler on two checkouts of the same file, for two
\* comments on one request; the pair is drawn once for a dataset.
TwoRuns(comment1, comment2, issue, randomSuffix) ==
    /\ last.op = "init"
    /\ Parses(disk)
    /\ last' = [op |-> "runs", issue |-> issue, before |-> JSONparse(disk),
                comment1 |-> comment1, comment2 |-> comment2,
                command1 |-> parseCommand(comment1),
                command2 |-> parseCommand(comment2),
                after1 |-> JSONparse(handlerRun(disk, comment1, issue.body, randomSuffix)),
                after2 |-> JSONparse(handlerRun(disk, comment2, issue.body, randomSuffix))]
    /\ UNCHANGED <<disk, issues, decided, writer, promises>>

\* The decision-apply cycle as far as writeFileSync opening the file for
\* writing, which empties it.
SaveOpen(comment, issue, randomSuffix) ==
    /\ writer = Idle
    /\ Parses(disk)
    /\ LET command == parseCommand(comment)
           pubDetails == parseIssueBody(issue.body)
           data == JSONparse(disk)
       IN  /\ ~noCommand(comment, command)
           /\ writer' = [pc |-> "writing", old |-> disk,
                         text |-> JSONstringify(applyDecision(data, command, pubDetails,
                                                              randomSuffix))]
           /\ decided' = decided \cup {[pub |-> issue.pub, action |-> command.action]}
           /\ last' = [op |-> "open", comment |-> comment, command |-> command,
                       issue |-> issue, pubDetails |-> pubDetails, before |-> data]
    /\ disk' = <<>>
    /\ UNCHANGED <<issues, promises>>

\* One write of writeFileSync's loop: the next n blocks reach the file.
SaveWrite(n) ==
    /\ writer # Idle
    /\ n \in 1..(Len(writer.text) - Len(disk))
    /\ disk' = SubSeq(writer.text, 1, Len(disk) + n)
    /\ writer' = IF Len(disk) + n = Len(writer.text) THEN Idle ELSE writer
    /\ last' = [op |-> "write", written |-> n]
    /\ UNCHANGED <<issues, decided, promises>>

\* A reader takes the file's content: the fetch cycle's readFileSync, the
\* page's fetch of data/publications.json.
ReadFile ==
    /\ last' = [op |-> "read", text |-> disk,
                old |-> IF writer = Idle THEN disk ELSE writer.old,
                new |-> IF writer = Idle THEN disk ELSE writer.text]
    /\ UNCHANGED <<disk, issues, decided, writer, promises>>

\* parseCommand run on the comment drawn
ParseComment ==
    /\ last.op = "comment"
    /\ last' = [op |-> "command", comment |-> last.comment,
                command |-> parseCommand(last.comment)]
    /\ UNCHANGED <<disk, issues, decided, writer, promises>>

----------------------------------------------------------------------------
(* The fetch cycle step by step: main starts the two provider fetches,     *)
(* each ends on its own, and main goes on when Promise.all settles         *)

Providers == {"orcid", "pubmed"}

\* how a provider's requests went: answered, fetch threw, response.ok false
Outcomes == {"ok", "network error", "bad status"}

Pending == [state |-> "pending"]

\* What fetchOrcidPublications / fetchPubmedPublications resolve to.
\* response is the publications list built from the answer; the catch
\* block turns every failure into [].
fetchPublications(outcome, response) ==
    [state |-> "fulfilled", value |-> IF outcome = "ok" THEN response ELSE <<>>]

\* the fulfilled values in the order the fetches ended
promiseAllByArrival(p) ==
    IF \E f \in Providers : p.of[f].state = "rejected" THEN [state |-> "rejected"]
    ELSE IF \E f \in Providers : p.of[f].state = "pending" THEN Pending
    ELSE [state |-> "fulfilled",
          value |-> <<p.of[p.settled[1]].value, p.of[p.settled[2]].value>>]

\* Promise.all([fetchOrcidPublications(), fetchPubmedPublications()]):
\* rejected once one of the two is, pending while one of them is, else
\* fulfilled with the values by position in the array
promiseAll(p) ==
    IF \E f \in Providers : p.of[f].state = "rejected" THEN [state |-> "rejected"]
    ELSE IF \E f \in Providers : p.of[f].state = "pending" THEN Pending
    ELSE [state |-> "fulfilled", value |-> <<p.of["orcid"].value, p.of["pubmed"].value>>]

\* main up to the await: the dataset is loaded and both fetches are started
StartFetch ==
    /\ promises = Idle
    /\ Parses(disk)
    /\ promises' = [pc |-> "awaiting",
                    existingData |-> JSONparse(disk),
                    of |-> [f \in Providers |-> Pending],
                    answer |-> [f \in Providers |-> [outcome |-> "none"]],
                    settled |-> <<>>]
    /\ last' = [op |-> "start"]
    /\ UNCHANGED <<disk, issues, decided, writer>>

\* One provider's fetch function ends.
FetchEnds(provider, outcome, response) ==
    /\ promises # Idle
    /\ promises.of[provider] = Pending
    /\ promises' = [promises EXCEPT
                        !.of[provider] = fetchPublications(outcome, response),
                        !.answer[provider] = [outcome |-> outcome, response |-> response],
                        !.settled = Append(@, provider)]
    /\ last' = [op |-> "end", provider |-> provider]
    /\ UNCHANGED <<disk, issues, decided, writer>>

\* main after the await: a rejection reaches main().catch and exits with 1;
\* otherwise the lists are combined, deduplicated and filtered, and the
\* review requests are created.
FetchResume(configured) ==
    /\ promises # Idle
    /\ promiseAll(promises).state # "pending"
    /\ IF promiseAll(promises).state = "rejected"
       THEN /\ last' = [op |-> "abort", exit |-> 1, join |-> promises]
            /\ UNCHANGED issues
       ELSE LET orcidPubs == promiseAll(promises).value[1]
                pubmedPubs == promiseAll(promises).value[2]
                allFetched == orcidPubs \o pubmedPubs
                kept == keptIndices(allFetched)
                uniquePubs == pick(allFetched, kept)
                newPublications == findNew(uniquePubs, promises.existingData)
            IN  \E created \in (IF configured THEN SUBSET DOMAIN newPublications ELSE {{}}) :
                    /\ issues' = issues \cup
                           {[pub |-> newPublications[i],
                             body |-> generateIssueBody(newPublications[i])] : i \in created}
                    /\ last' = [op |-> "fetch", existingData |-> promises.existingData,
                                allFetched |-> allFetched, kept |-> kept,
                                uniquePubs |-> uniquePubs,
                                newPublications |-> newPublications,
                                created |-> created, join |-> promises]
    /\ promises' = Idle
    /\ UNCHANGED <<disk, decided, writer>>

----------------------------------------------------------------------------
(* The inputs drawn *)

MaxFetch == 2      \* records one provider returns in one cycle
MaxEntries == 2    \* entries in the dataset
MaxSegments == 2   \* pieces of a comment

\* an identifier is one token: the code only compares it and splits at
\* white space
Doi1 == <<"10.1/x">>
Pmid8 == <<"38000008">>
Pmid9 == <<"38000009">>

OrcidWork(title, year, journal, doi, pmid) ==
    [title |-> title, authors |-> Null, year |-> year, journal |-> journal,
     doi |-> doi, pmid |-> pmid, source |-> "orcid"]

PubmedArticle(title, authors, year, journal, doi, pmid) ==
    [title |-> title, authors |-> authors, year |-> year, journal |-> journal,
     doi |-> doi, pmid |-> pmid, source |-> "pubmed"]

wFoo == OrcidWork(<<"F","o","o">>, 2024, <<"J">>, Doi1, Null)
wBar == OrcidWork(<<"B","a","r">>, 2025, <<>>, Doi1, Null)
\* a work whose pmid entry holds the text of wFoo's doi
wBaz == OrcidWork(<<"B","a","z">>, NoYear, <<"J">>, Null, Doi1)
\* a work with no title and no identifier
wUntitled == OrcidWork(<<>>, NoYear, <<>>, Null, Null)
aFoo == PubmedArticle(<<"f","o","o","!">>, <<"R","u","b","i","n"," ","B","E">>,
                      2024, <<"J">>, Doi1, Pmid8)
aQux == PubmedArticle(<<"Q","u","x">>, <<>>, 2025, <<"K">>, Null, Pmid9)

\* a work whose pmid entry holds the empty string, and no doi
wBlankPmid == OrcidWork(<<"Z","e","d">>, 2023, <<"J">>, Null, <<>>)

OrcidWorks == {wFoo, wBar, wBaz}
PubmedArticles == {aFoo, aQux}

\* the lists of at most n different elements of S
ListsOf(S, n) ==
    {q \in UNION {[1..k -> S] : k \in 0..n} :
        \A i, j \in DOMAIN q : i # j => q[i] # q[j]}

Suffixes == {<<"k","4","z">>, <<"0","q">>}

Comments ==
    { <<>>,
      <<"o","k">>,
      <<"/approve", " ", "doi:">> \o Doi1,
      <<"/reject", " ", "doi:">> \o Doi1,
      <<"/REJECT", "\n", "pmid:", "n","u","l","l">>,
      <<"/approve", "doi:">> \o Doi1 }

\* the entry a decision on pub's review request appends
entryOf(pub) == newEntry(parseIssueBody(generateIssueBody(pub)), ThisYear, <<"s","e","d">>)

\* datasets of earlier runs; pending is filled by hand only
SeedDatasets ==
    {[approved |-> a, pending |-> p, rejected |-> r, lastUpdated |-> 0] :
        a \in {<<>>, <<entryOf(aQux)>>},
        p \in {<<>>, <<entryOf(wBaz)>>},
        r \in {<<>>, <<entryOf(wFoo)>>}}

----------------------------------------------------------------------------
(* The pipeline: fetch-and-propose cycles and decision-apply cycles, one   *)
(* at a time                                                               *)

Init ==
    /\ disk = JSONstringify(EmptyDataset)
    /\ issues = {}
    /\ decided = {}
    /\ writer = Idle
    /\ promises = Idle
    /\ last = [op |-> "init"]

entryCount(data) == Len(data.approved) + Len(data.pending) + Len(data.rejected)

Fetch ==
    \E orcidPubs \in ListsOf({wUntitled}, MaxFetch), pubmedPubs \in ListsOf({aFoo}, MaxFetch) :
        FetchCycle(orcidPubs, pubmedPubs, TRUE)

Decide ==
    \E comment \in Comments, issue \in issues, randomSuffix \in Suffixes :
        /\ entryCount(JSONparse(disk)) < MaxEntries
        /\ DecisionApply(comment, issue, randomSuffix)

Next == Fetch \/ Decide

Spec == Init /\ [][Next]_vars

----------------------------------------------------------------------------
(* The fetch cycle alone, over the datasets of earlier runs, with no       *)
(* tracker configured                                                      *)

InitFetch ==
    /\ disk \in {JSONstringify(d) : d \in SeedDatasets}
    /\ issues = {}
    /\ decided = {}
    /\ writer = Idle
    /\ promises = Idle
    /\ last = [op |-> "init"]

OrcidLists == ListsOf(OrcidWorks, MaxFetch)
PubmedLists == ListsOf(PubmedArticles, MaxFetch)

FetchAny ==
    \E orcidPubs \in OrcidLists, pubmedPubs \in PubmedLists :
        FetchCycle(orcidPubs, pubmedPubs, FALSE)

NextFetch == FetchAny

SpecFetch == InitFetch /\ [][NextFetch]_vars

----------------------------------------------------------------------------
(* A save and the readers of the file, step by step *)

issueOf(pub) == [pub |-> pub, body |-> generateIssueBody(pub)]

InitSave ==
    /\ disk = JSONstringify(EmptyDataset)
    /\ issues = {issueOf(wUntitled), issueOf(aFoo)}
    /\ decided = {}
    /\ writer = Idle
    /\ promises = Idle
    /\ last = [op |-> "init"]

Open ==
    \E comment \in Comments, issue \in issues, randomSuffix \in Suffixes :
        /\ Parses(disk)
        /\ entryCount(JSONparse(disk)) < MaxEntries
        /\ SaveOpen(comment, issue, randomSuffix)

Write == \E n \in 1..4 : SaveWrite(n)

NextSave == Open \/ Write \/ ReadFile

SpecSave == InitSave /\ [][NextSave]_vars

----------------------------------------------------------------------------
(* parseCommand alone, over the comments drawn *)

Segments ==
    { <<"/approve", " ", "doi:">> \o Doi1,
      <<"/APPROVE", "\n", "pmid:">> \o Pmid8,
      <<"/reject", " ", "doi:">> \o Doi1,
      <<"/reject", " ", " ", "PMID:">> \o Pmid9,
      <<"/approve", "doi:">> \o Doi1,
      <<"/reject", " ", "doi:">>,
      <<"/approve", " ">> \o Pmid8,
      <<"o", "k">> }

RECURSIVE CommentsOf(_)
CommentsOf(n) ==
    IF n = 0 THEN {<<>>}
    ELSE CommentsOf(n - 1)
         \cup {c \o <<"\n">> \o g : c \in CommentsOf(n - 1) \ {<<>>}, g \in Segments}
         \cup Segments

CommentTexts == CommentsOf(MaxSegments)

InitCommand ==
    /\ disk = JSONstringify(EmptyDataset)
    /\ issues = {}
    /\ decided = {}
    /\ writer = Idle
    /\ promises = Idle
    /\ last \in {[op |-> "comment", comment |-> c] : c \in CommentTexts}

NextCommand == ParseComment

SpecCommand == InitCommand /\ [][NextCommand]_vars

----------------------------------------------------------------------------
(* The two provider fetches of one cycle, ending in either order           *)

InitJoin ==
    /\ disk \in {JSONstringify(d) : d \in SeedDatasets}
    /\ issues = {}
    /\ decided = {}
    /\ writer = Idle
    /\ promises = Idle
    /\ last = [op |-> "init"]

OrcidEnds ==
    \E outcome \in Outcomes, response \in OrcidLists :
        FetchEnds("orcid", outcome, response)

PubmedEnds ==
    \E outcome \in Outcomes, response \in PubmedLists :
        FetchEnds("pubmed", outcome, response)

Resume == FetchResume(FALSE)

NextJoin == StartFetch \/ OrcidEnds \/ PubmedEnds \/ Resume

SpecJoin == InitJoin /\ [][NextJoin]_vars

----------------------------------------------------------------------------
(* Decisions by the command a review request prints: the reviewer's        *)
(* comment is the /approve or /reject line of the request body             *)

\* the line of the body that begins with verb
printedCommand(body, verb) ==
    LET i == Min({k \in DOMAIN body : body[k] = verb})
    IN  SubSeq(body, i, SkipNotIn(body, i, {"\n"}) - 1)

QuoteRecords == {wUntitled, wBlankPmid, wFoo, wBaz, aQux}

InitQuote ==
    /\ disk = JSONstringify(EmptyDataset)
    /\ issues = {issueOf(pub) : pub \in QuoteRecords}
    /\ decided = {}
    /\ writer = Idle
    /\ promises = Idle
    /\ last = [op |-> "init"]

QuoteDecide ==
    \E issue \in issues, verb \in {"/approve", "/reject"}, randomSuffix \in Suffixes :
        /\ entryCount(JSONparse(disk)) < MaxEntries
        /\ DecisionApply(printedCommand(issue.body, verb), issue, randomSuffix)

NextQuote == QuoteDecide

SpecQuote == InitQuote /\ [][NextQuote]_vars

----------------------------------------------------------------------------
(* Two comments on one request, each handled on its own checkout           *)

TwinComments == Comments \cup {<<"/approve", " ", "pmid:">> \o Pmid9,
                               <<"/APPROVE", " ", "DOI:", "n", "o", "n", "e">>}

InitTwin ==
    /\ disk \in {JSONstringify(d) : d \in SeedDatasets}
    /\ issues = {issueOf(pub) : pub \in {wFoo, aFoo, aQux, wUntitled}}
    /\ decided = {}
    /\ writer = Idle
    /\ promises = Idle
    /\ last = [op |-> "init"]

Twin ==
    \E comment1 \in TwinComments, comment2 \in TwinComments,
       issue \in issues, randomSuffix \in Suffixes :
        TwoRuns(comment1, comment2, issue, randomSuffix)

NextTwin == Twin

SpecTwin == InitTwin /\ [][NextTwin]_vars

----------------------------------------------------------------------------
(* Properties *)

dataset == JSONparse(disk)

entriesOf(data) == Range(data.approved) \cup Range(data.pending) \cup Range(data.rejected)

\* an equal non-empty doi, an equal non-empty pmid, or an equal normalized title
SameIdentity(a, b) ==
    \/ a.doi \notin {Null, <<>>} /\ a.doi = b.doi
    \/ a.pmid \notin {Null, <<>>} /\ a.pmid = b.pmid
    \/ normalizeTitle(a.title) = normalizeTitle(b.title)

\* the elements of s at the indices I, in the order of s
SubsequenceAt(s, I) ==
    [k \in 1..Cardinality(I) |-> s[CHOOSE i \in I : Cardinality({j \in I : j <= i}) = k]]

Decided == last.op = "decide" /\ last.command # NoCommand

(* C1: no two entries lying in different lists among approved, pending and
   rejected share an equal non-empty doi, an equal non-empty pmid or an
   equal normalized title. *)
C1_ListsDisjoint ==
    LET lists == <<dataset.approved, dataset.pending, dataset.rejected>>
    IN  \A m, n \in 1..3 : m # n =>
            \A i \in DOMAIN lists[m], j \in DOMAIN lists[n] :
                ~SameIdentity(lists[m][i], lists[n][j])

(* C2: once a decision-apply cycle has rejected a record, a fetch cycle that
   fetches a record with the identity of the record originally proposed
   leaves it out of the new-publication set. *)
C2_RejectedNeverProposedAgain ==
    last.op = "fetch" =>
        \A i \in DOMAIN last.uniquePubs :
            (\E d \in decided :
                d.action = "reject" /\ SameIdentity(last.uniquePubs[i], d.pub))
            => last.uniquePubs[i] \notin Range(last.newPublications)

(* C3: the new-publication set is exactly the subsequence of the
   deduplicated list, in its order, of the records for which no entry of
   approved, pending or rejected has an equal non-empty doi, an equal
   non-empty pmid or an equal normalized title. *)
C3_NewIsFilteredSubsequence ==
    last.op = "fetch" =>
        last.newPublications =
            SubsequenceAt(last.uniquePubs,
                {i \in DOMAIN last.uniquePubs :
                    \A e \in entriesOf(last.existingData) :
                        ~SameIdentity(last.uniquePubs[i], e)})

\* a cycle that left out a record matching only a rejected entry and kept
\* another record
C3_Witness ==
    /\ last.op = "fetch"
    /\ last.newPublications # <<>>
    /\ last.existingData.pending # <<>>
    /\ \E i \in DOMAIN last.uniquePubs :
          /\ \E e \in Range(last.existingData.rejected) : SameIdentity(last.uniquePubs[i], e)
          /\ \A e \in Range(last.existingData.approved) \cup Range(last.existingData.pending) :
                ~SameIdentity(last.uniquePubs[i], e)
          /\ last.uniquePubs[i] \notin Range(last.newPublications)

SharedDoi(i, j) ==
    /\ i < j
    /\ last.allFetched[i].doi \notin {Null, <<>>}
    /\ last.allFetched[i].doi = last.allFetched[j].doi

Survives(i) == i \in Range(last.kept)

\* doi ?? pmid ?? normalized title
KeyOf(pub) ==
    IF pub.doi \notin {Null, <<>>} THEN pub.doi
    ELSE IF pub.pmid \notin {Null, <<>>} THEN pub.pmid
    ELSE normalizeTitle(pub.title)

(* C4, as stated: of any two fetched records that share a non-empty doi
   exactly one survives the deduplication, the one appearing first in the
   combined order. *)
C4_ExactlyOneOfAnyTwo ==
    last.op = "fetch" =>
        \A i, j \in DOMAIN last.allFetched :
            SharedDoi(i, j) => Survives(i) /\ ~Survives(j)

(* C4, amended: of any two fetched records that share a non-empty doi the
   later one never survives, and the earlier one (the ORCID record when the
   sources differ) survives exactly when no record before it has that doi
   as its key, doi, else pmid, else normalized title. *)
C4_LaterDroppedFirstKept ==
    last.op = "fetch" =>
        \A i, j \in DOMAIN last.allFetched :
            SharedDoi(i, j) =>
                /\ ~Survives(j)
                /\ (Survives(i) <=>
                       \A h \in 1..(i - 1) :
                           KeyOf(last.allFetched[h]) # last.allFetched[i].doi)
                /\ (last.allFetched[i].source # last.allFetched[j].source
                        => last.allFetched[i].source = "orcid")

\* an ORCID record and a PubMed record with one doi: the first kept, the
\* second dropped
C4_Witness ==
    /\ last.op = "fetch"
    /\ \E i, j \in DOMAIN last.allFetched :
          /\ SharedDoi(i, j)
          /\ last.allFetched[i].source = "orcid"
          /\ last.allFetched[j].source = "pubmed"
          /\ Survives(i)
          /\ ~Survives(j)

\* a field absent or empty comes back empty or absent; any other comes back equal
SameField(original, parsed) ==
    IF original \in {Null, <<>>} THEN parsed \in {Null, <<>>} ELSE parsed = original

(* C5: rendering a record's review-request body and parsing that body
   yields a record equal to the original on title, authors, journal, year,
   doi and pmid, an absent or empty field coming back empty or absent. *)
C5_RoundTrip ==
    Decided =>
        /\ SameField(last.issue.pub.title, last.pubDetails.title)
        /\ SameField(last.issue.pub.authors, last.pubDetails.authors)
        /\ SameField(last.issue.pub.journal, last.pubDetails.journal)
        /\ last.issue.pub.year = last.pubDetails.year
        /\ SameField(last.issue.pub.doi, last.pubDetails.doi)
        /\ SameField(last.issue.pub.pmid, last.pubDetails.pmid)

(* C6: a decision-apply cycle with a recognized command appends exactly one
   entry to the end of the list its action names and leaves the other two
   lists unchanged; the entry's links.paper is "https://doi.org/" followed
   by the doi when the parsed body has one, and it has no paper link
   otherwise. *)
C6_AppendsOneEntry ==
    Decided =>
        LET target == IF last.command.action = "approve" THEN "approved" ELSE "rejected"
            entry == dataset[target][Len(dataset[target])]
        IN  /\ last.command.action \in {"approve", "reject"}
            /\ Len(dataset[target]) = Len(last.before[target]) + 1
            /\ SubSeq(dataset[target], 1, Len(last.before[target])) = last.before[target]
            /\ \A other \in {"approved", "pending", "rejected"} \ {target} :
                   dataset[other] = last.before[other]
            /\ IF last.pubDetails.doi \notin {Null, <<>>}
               THEN /\ <<"paper", <<"https://doi.org/">> \o last.pubDetails.doi>> \in entry.links
                    /\ Cardinality({l \in entry.links : l[1] = "paper"}) = 1
               ELSE {l \in entry.links : l[1] = "paper"} = {}

\* an approval of a request whose body has a doi, after an earlier entry
C6_Witness ==
    /\ Decided
    /\ last.command.action = "approve"
    /\ last.pubDetails.doi = Doi1
    /\ entryCount(last.before) > 0
    /\ Len(dataset.approved) = Len(last.before.approved) + 1

\* /approve or /reject, white space, doi: or pmid:, a token, in any case
HasCommandAt(comment, i) ==
    /\ comment[i] \in {"/approve", "/APPROVE", "/reject", "/REJECT"}
    /\ \E j \in (i + 2)..(Len(comment) - 1) :
          /\ \A k \in (i + 1)..(j - 1) : comment[k] \in {" ", "\n", "\t"}
          /\ comment[j] \in {"doi:", "pmid:", "DOI:", "PMID:"}
          /\ comment[j + 1] \notin {" ", "\n", "\t"}

(* C7: when the comment holds no recognized /approve or /reject command,
   parseCommand returns none and the cycle leaves the dataset file as it
   was: approved, pending, rejected and lastUpdated. *)
C7_NoCommandNoChange ==
    (last.op = "decide" /\ \A i \in DOMAIN last.comment : ~HasCommandAt(last.comment, i))
    => /\ last.command = NoCommand
       /\ dataset = last.before

\* a comment that is text without a command, on a dataset with an entry
C7_Witness ==
    /\ last.op = "decide"
    /\ last.comment = <<"/approve", "doi:">> \o Doi1
    /\ last.command = NoCommand
    /\ last.exit = 0
    /\ entryCount(dataset) > 0

(* C8: a reader of the file sees either the complete old content or the
   complete new content of a save, never a file written in part. *)
C8_ReadsOldOrNew ==
    last.op = "read" => last.text \in {last.old, last.new}

(* C9: the ids of all entries of approved, pending and rejected are
   pairwise different. *)
C9_IdsUnique ==
    LET all == dataset.approved \o dataset.pending \o dataset.rejected
    IN  \A i, j \in DOMAIN all : i # j => all[i].id # all[j].id

\* where a well-formed command of the action starts
CommandStarts(comment, action) ==
    {i \in DOMAIN comment :
        /\ comment[i] \in (IF action = "approve" THEN {"/approve", "/APPROVE"}
                           ELSE {"/reject", "/REJECT"})
        /\ HasCommandAt(comment, i)}

\* the decision read at the command starting at i
DecisionAt(comment, i, action) ==
    LET j == Min({p \in (i + 2)..Len(comment) :
                      comment[p] \in {"doi:", "pmid:", "DOI:", "PMID:"}})
        end == CHOOSE e \in (j + 1)..Len(comment) :
                 /\ \A k \in (j + 1)..e : comment[k] \notin {" ", "\n", "\t"}
                 /\ e = Len(comment) \/ comment[e + 1] \in {" ", "\n", "\t"}
    IN  [action |-> action,
         idType |-> IF comment[j] \in {"doi:", "pmid:"}
                    THEN (IF comment[j] = "doi:" THEN "doi" ELSE "pmid")
                    ELSE (IF comment[j] = "DOI:" THEN "DOI" ELSE "PMID"),
         idValue |-> SubSeq(comment, j + 1, end)]

(* C10, as stated: for a comment holding both a well-formed /approve
   command and a well-formed /reject command, parseCommand returns the
   action, idType and idValue of whichever occurs earlier in the text. *)
C10_EarlierCommandWins ==
    LET a == CommandStarts(last.comment, "approve")
        r == CommandStarts(last.comment, "reject")
    IN  (last.op = "command" /\ a # {} /\ r # {}) =>
            last.command = IF Min(a) < Min(r)
                           THEN DecisionAt(last.comment, Min(a), "approve")
                           ELSE DecisionAt(last.comment, Min(r), "reject")

(* C10, amended: for a comment holding both a well-formed /approve command
   and a well-formed /reject command, parseCommand returns the action,
   idType and idValue of the first /approve command, wherever the /reject
   commands stand; a /reject command is returned, the first one, only when
   the comment holds no well-formed /approve command. *)
C10_ApproveWins ==
    LET a == CommandStarts(last.comment, "approve")
        r == CommandStarts(last.comment, "reject")
    IN  last.op = "command" =>
            last.command = IF a # {} THEN DecisionAt(last.comment, Min(a), "approve")
                           ELSE IF r # {} THEN DecisionAt(last.comment, Min(r), "reject")
                           ELSE NoCommand

\* a comment whose /reject command comes before its /approve command
C10_Witness ==
    /\ last.op = "command"
    /\ CommandStarts(last.comment, "approve") # {}
    /\ CommandStarts(last.comment, "reject") # {}
    /\ Min(CommandStarts(last.comment, "reject")) < Min(CommandStarts(last.comment, "approve"))
    /\ last.command.action = "approve"

\* the records a provider contributes: its list when its requests were
\* answered, none when they failed
Contribution(p, provider) ==
    IF p.answer[provider].outcome = "ok" THEN p.answer[provider].response ELSE <<>>

(* C11: for every order in which the two provider fetches end and whatever
   their outcomes, deduplication starts only after both have ended, a
   provider that failed contributes no records and the run is not aborted,
   and the combined list is the ORCID records followed by the PubMed
   records. *)
C11_JoinedInArrayOrder ==
    /\ [](last.op # "abort")
    /\ [](last.op = "fetch" =>
            /\ Len(last.join.settled) = 2
            /\ last.allFetched = Contribution(last.join, "orcid")
                                 \o Contribution(last.join, "pubmed"))
    /\ [][(promises # Idle /\ promises' = Idle) =>
              \A f \in Providers : promises.of[f].state # "pending"]_vars

\* PubMed ended first and ORCID failed after it: the cycle went on with the
\* PubMed records alone
C11_Witness ==
    /\ last.op = "fetch"
    /\ last.join.settled = <<"pubmed", "orcid">>
    /\ last.join.answer["orcid"].outcome = "network error"
    /\ last.join.answer["orcid"].response # <<>>
    /\ last.join.answer["pubmed"].outcome = "ok"
    /\ Len(last.allFetched) = 2
    /\ last.allFetched = last.join.answer["pubmed"].response

ListNames == {"approved", "pending", "rejected"}

IsPrefix(s, t) == Len(s) <= Len(t) /\ SubSeq(t, 1, Len(s)) = s

(* C12: the persisted dataset is append-only and changed only by the
   decision-apply step: a fetch-and-propose cycle leaves approved, pending,
   rejected and lastUpdated as they were, and over any sequence of cycles
   the earlier content of each list stays an unmodified prefix of its later
   content. *)
C12_AppendOnly ==
    [][/\ last'.op = "fetch" => disk' = disk
       /\ JSONparse(disk') # JSONparse(disk) => last'.op = "decide"
       /\ \A k \in ListNames : IsPrefix(JSONparse(disk)[k], JSONparse(disk')[k])]_vars

\* a second rejection, put after the first one, with a fetch cycle in
\* between the two having left the dataset alone
C12_Witness ==
    /\ Decided
    /\ last.command.action = "reject"
    /\ Len(last.before.rejected) = 1
    /\ Len(dataset.rejected) = 2
    /\ dataset.rejected[1] = last.before.rejected[1]
    /\ dataset.rejected[2] # dataset.rejected[1]
    /\ Cardinality(issues) = 2

\* the request decided was made for a record with neither a doi nor a pmid
NoIdentifier == last.op = "decide" /\ ~Truthy(last.issue.pub.doi) /\ ~Truthy(last.issue.pub.pmid)

(* C13, as stated: when a record has neither a doi nor a pmid, the command
   templates of its request reference pmid: with nothing after the colon,
   and parseCommand on the rendered command yields no non-empty idValue. *)
C13_EmptyPmidReference ==
    NoIdentifier =>
        /\ last.comment \in {<<"/approve", " ", "pmid:">>, <<"/reject", " ", "pmid:">>}
        /\ (last.command = NoCommand \/ last.command.idValue = <<>>)

(* C13, amended: when a record has neither a doi nor a pmid, the command
   templates reference pmid: followed by the string form of the record's
   pmid value: the text null when pmid is null, and parseCommand on the
   rendered command then yields idType pmid and idValue "null"; there is
   nothing after the colon only when pmid is the empty string, and
   parseCommand then finds no command. *)
C13_PmidStringReference ==
    NoIdentifier =>
        \E verb \in {"approve", "reject"} :
            IF last.issue.pub.pmid = Null
            THEN /\ last.comment = <<"/" \o verb, " ", "pmid:", "n", "u", "l", "l">>
                 /\ last.command = [action |-> verb, idType |-> "pmid",
                                    idValue |-> <<"n", "u", "l", "l">>]
            ELSE /\ last.comment = <<"/" \o verb, " ", "pmid:">>
                 /\ last.command = NoCommand

\* the printed /reject command of a request for a work with no identifier,
\* applied: an entry in rejected, decided by idValue "null"
C13_Witness ==
    /\ NoIdentifier
    /\ last.issue.pub = wUntitled
    /\ last.command.action = "reject"
    /\ last.command.idValue = <<"n", "u", "l", "l">>
    /\ Len(dataset.rejected) = Len(last.before.rejected) + 1

(* C14: the entry a decision-apply cycle appends depends only on the
   command's action and the parsed request body, never on the command's
   idType or idValue: two runs from the same dataset with the same action,
   request body and id suffix, and different idType or idValue in the
   comment, leave identical approved, pending and rejected lists. *)
C14_IdentifierNotUsed ==
    (/\ last.op = "runs"
     /\ last.command1 # NoCommand
     /\ last.command2 # NoCommand
     /\ last.command1.action = last.command2.action)
    => \A k \in ListNames : last.after1[k] = last.after2[k]

\* two approvals of the request of PubMed record foo!, one naming its doi,
\* one naming the pmid of another record: the same entry appended
C14_Witness ==
    /\ last.op = "runs"
    /\ last.issue.pub = aFoo
    /\ last.command1 = [action |-> "approve", idType |-> "doi", idValue |-> Doi1]
    /\ last.command2 = [action |-> "approve", idType |-> "pmid", idValue |-> Pmid9]
    /\ Len(last.after1.approved) = Len(last.before.approved) + 1
    /\ last.after1.approved[Len(last.after1.approved)].pmid = Pmid8
    /\ last.after2.approved = last.after1.approved

====
